---- MODULE Spec2Model ----
(***************************************************************************)
(* The mock storage server of StorageSharp.Tests/MockServer                *)
(* (mock_storage_server.py): the in-memory MockStorage with its lock, and  *)
(* the StorageRequestHandler that routes HTTP requests to it.              *)
(*                                                                         *)
(* Text is a sequence of one-character strings; bytes are 0..255; a Base64 *)
(* text is a sequence over 0..63 (the alphabet's values), Pad ('=') and    *)
(* Junk (a character outside the alphabet).                                *)
(***************************************************************************)
EXTENDS Integers, Sequences, FiniteSets, TLC

VARIABLES
    storage,    \* MockStorage._storage: the dict, as its items in insertion order
    lock,       \* MockStorage._lock: the connection whose worker holds it, or Free
    pc,         \* per connection: where its request stands
    req,        \* per connection: the request being handled
    key,        \* per connection: the handler's local `key`
    data,       \* per connection: _handle_write's local `data` (decoded bytes)
    keys,       \* per connection: _handle_list's local `keys`
    sent,       \* the response the last step wrote to a socket, if any, with
                \* history: the key's history before, the keys changed, `late`
    hist,       \* history: per key, the last Store mutation in lock order
    behind,     \* history: per connection, the reads asleep when it connected
    late        \* history: per connection, the reads whose delay ran out on it

vars == <<storage, lock, pc, req, key, data, keys, sent, hist, behind, late>>

-----------------------------------------------------------------------------
(* Bounds and input sets *)

MaxPayloadLen == 2

Bytes == {1, 255}

Conns == {"c1", "c2"}

Free == "free"

-----------------------------------------------------------------------------
(* Python text helpers *)

\* s[i:] for a 0-based i
Slice(s, i) == SubSeq(s, i + 1, Len(s))

\* s.startswith(p)
startswith(s, p) == Len(s) >= Len(p) /\ SubSeq(s, 1, Len(p)) = p

\* s.find(ch, start), 1-based, 0 when absent
Find(s, ch, start) ==
    LET hits == {i \in start..Len(s) : s[i] = ch}
    IN  IF hits = {} THEN 0 ELSE CHOOSE i \in hits : \A j \in hits : i <= j

\* s.rfind(ch), 1-based, 0 when absent
RFind(s, ch) ==
    LET hits == {i \in 1..Len(s) : s[i] = ch}
    IN  IF hits = {} THEN 0 ELSE CHOOSE i \in hits : \A j \in hits : i >= j

\* url.split(ch, 1)[0]
Before(s, ch) ==
    LET i == Find(s, ch, 1) IN IF i = 0 THEN s ELSE SubSeq(s, 1, i - 1)

\* urllib.parse._splitparams(url)[0]: the parameters are cut at the first ';'
\* that follows the last '/'
splitparams(url) ==
    LET i == IF RFind(url, "/") > 0
             THEN Find(url, ";", RFind(url, "/"))
             ELSE Find(url, ";", 1)
    IN  IF i = 0 THEN url ELSE SubSeq(url, 1, i - 1)

\* as urlparse_path, were self.path used as it stands
urlparse_path_raw(target) == target

\* urlparse(self.path).path for an origin-form target ("/..." and not "//..."):
\* no scheme, no netloc; the fragment is split off first, then the query, then
\* the parameters of the last segment
urlparse_path(target) ==
    LET nofrag  == Before(target, "#")
        noquery == Before(nofrag, "?")
    IN  IF Find(noquery, ";", 1) > 0 THEN splitparams(noquery) ELSE noquery

-----------------------------------------------------------------------------
(* base64.b64encode / base64.b64decode (binascii), on Base64 values *)

Pad == 64
Junk == 65

RECURSIVE b64encode(_)
b64encode(b) ==
    IF Len(b) = 0 THEN <<>>
    ELSE IF Len(b) = 1 THEN
        <<b[1] \div 4, (b[1] % 4) * 16, Pad, Pad>>
    ELSE IF Len(b) = 2 THEN
        <<b[1] \div 4, (b[1] % 4) * 16 + b[2] \div 16, (b[2] % 16) * 4, Pad>>
    ELSE
        <<b[1] \div 4, (b[1] % 4) * 16 + b[2] \div 16,
          (b[2] % 16) * 4 + b[3] \div 64, b[3] % 64>> \o b64encode(Slice(b, 3))

\* binascii.a2b_base64 without strict mode: characters outside the alphabet are
\* skipped, a complete pad sequence ends the parse, and leftover characters of
\* an unfinished quad are an error ("Incorrect padding")
RECURSIVE a2b(_, _, _, _, _, _)
a2b(s, i, quad, left, pads, out) ==
    IF i > Len(s) THEN [ok |-> quad = 0, bytes |-> out]
    ELSE IF s[i] = Pad THEN
        IF quad >= 2 /\ quad + pads + 1 >= 4
        THEN [ok |-> TRUE, bytes |-> out]
        ELSE a2b(s, i + 1, quad, left, IF quad >= 2 THEN pads + 1 ELSE pads, out)
    ELSE IF s[i] >= 64 THEN a2b(s, i + 1, quad, left, pads, out)
    ELSE IF quad = 0 THEN a2b(s, i + 1, 1, s[i], 0, out)
    ELSE IF quad = 1 THEN
        a2b(s, i + 1, 2, s[i] % 16, 0, Append(out, left * 4 + s[i] \div 16))
    ELSE IF quad = 2 THEN
        a2b(s, i + 1, 3, s[i] % 4, 0, Append(out, left * 16 + s[i] \div 4))
    ELSE
        a2b(s, i + 1, 0, 0, 0, Append(out, left * 64 + s[i]))

b64decode(s) == a2b(s, 1, 0, 0, 0, <<>>)

-----------------------------------------------------------------------------
(* The dict of MockStorage: a sequence of items, keys unique, insertion order *)

DictHas(d, k) == \E i \in 1..Len(d) : d[i].key = k

\* as DictGet, were the first item taken whatever its key
DictGet_first(d, k) == d[1].value

DictGet(d, k) == d[CHOOSE i \in 1..Len(d) : d[i].key = k].value

\* d[k] = v: an existing key keeps its place, a new one goes last
DictSet(d, k, v) ==
    IF DictHas(d, k)
    THEN [d EXCEPT ![CHOOSE i \in 1..Len(d) : d[i].key = k] = [key |-> k, value |-> v]]
    ELSE Append(d, [key |-> k, value |-> v])

\* as DictDel, were every key under the prefix k removed with it
DictDel_prefix(d, k) ==
    SelectSeq(d, LAMBDA it : ~(Len(it.key) >= Len(k) /\ SubSeq(it.key, 1, Len(k)) = k))

\* del d[k]
DictDel(d, k) == SelectSeq(d, LAMBDA it : it.key # k)

\* list(d.keys())
DictKeys(d) == [i \in 1..Len(d) |-> d[i].key]

-----------------------------------------------------------------------------
(* MockStorage: each method's body, run with the lock held; the result is   *)
(* the dict afterwards and the value returned (None as none |-> TRUE)       *)

None == [none |-> TRUE, value |-> <<>>]
Some(v) == [none |-> FALSE, value |-> v]

list_all(d) == [dict |-> d, ret |-> DictKeys(d)]

\* as read, were it self._storage.get(key, b'')
read_default_empty(d, k) ==
    [dict |-> d, ret |-> IF ~DictHas(d, k) THEN Some(<<>>) ELSE Some(DictGet(d, k))]

read(d, k) ==
    [dict |-> d, ret |-> IF ~DictHas(d, k) THEN None ELSE Some(DictGet(d, k))]

\* as write, were it d.setdefault(k, v)
write_keep(d, k, v) ==
    [dict |-> IF DictHas(d, k) THEN d ELSE DictSet(d, k, v), ret |-> TRUE]

write(d, k, v) == [dict |-> DictSet(d, k, v), ret |-> TRUE]

\* as delete, were the entry blanked and not removed
delete_blank(d, k) ==
    IF DictHas(d, k)
    THEN [dict |-> DictSet(d, k, <<>>), ret |-> TRUE]
    ELSE [dict |-> d, ret |-> FALSE]

\* as delete, were True returned whether or not the key was there
delete_always_true(d, k) == [dict |-> DictDel(d, k), ret |-> TRUE]

delete(d, k) ==
    IF DictHas(d, k)
    THEN [dict |-> DictDel(d, k), ret |-> TRUE]
    ELSE [dict |-> d, ret |-> FALSE]

-----------------------------------------------------------------------------
(* Requests and responses *)

\* no body (no Content-Length header, or Content-Length: 0)
NoBody == [kind |-> "none", data |-> <<>>]
\* the JSON object {"data": "<s>"}
JsonData(s) == [kind |-> "data", data |-> s]
\* the JSON object {}
JsonNoData == [kind |-> "nodata", data |-> <<>>]
\* bytes that are no JSON text
NotJson == [kind |-> "notjson", data |-> <<>>]
\* a body under a Content-Length header that is no number
BadLength == [kind |-> "badlength", data |-> <<>>]
\* a Content-Length that announces more bytes than the client sends; what it
\* sends is the beginning of a JSON text
ShortBody == [kind |-> "short", data |-> <<>>]

Request(m, t, b) == [method |-> m, target |-> t, body |-> b]
NoReq == Request("-", <<>>, NoBody)

NoError == [text |-> "", key |-> <<>>]

Response(status, kind, k, d, size, ks, err) ==
    [status |-> status, kind |-> kind, key |-> k, data |-> d, size |-> size,
     keys |-> ks, error |-> err]

\* the JSON error envelope {"error": message, "code": code}
ErrorBody(code, text, k) ==
    Response(code, "error", <<>>, <<>>, 0, <<>>, [text |-> text, key |-> k])

\* http.server's own error page, sent by BaseHTTPRequestHandler.send_error
HtmlError(code) == Response(code, "html", <<>>, <<>>, 0, <<>>, NoError)

NoHist == [state |-> "none", body |-> NoBody]

NoSent == [conn |-> "-", req |-> NoReq, resp |-> HtmlError(0), was |-> NoHist,
           changed |-> {}, late |-> {}]

\* the entry of key k in dict d, None when it has none
Lookup(d, k) == IF DictHas(d, k) THEN Some(DictGet(d, k)) ELSE None

\* the keys whose entry differs between dicts d and e
Changed(d, e) ==
    {k \in {d[i].key : i \in 1..Len(d)} \cup {e[i].key : i \in 1..Len(e)} :
        Lookup(d, k) # Lookup(e, k)}

HistOf(k) == IF k \in DOMAIN hist THEN hist[k] ELSE NoHist

HistSet(k, h) == [x \in DOMAIN hist \cup {k} |-> IF x = k THEN h ELSE hist[x]]

SeqsUpTo(S, n) == UNION {[1..m -> S] : m \in 0..n}

Payloads == SeqsUpTo(Bytes, MaxPayloadLen)

HEALTH == <<"/", "h", "e", "a", "l", "t", "h">>
LIST == <<"/", "l", "i", "s", "t">>
READ == <<"/", "r", "e", "a", "d", "/">>
WRITE == <<"/", "w", "r", "i", "t", "e", "/">>
DELETE == <<"/", "d", "e", "l", "e", "t", "e", "/">>

\* what follows the route prefix in the targets the clients send: two keys
\* (one with a slash in it) and the same with a query, a fragment, parameters
A == <<"a">>
AB == <<"a", "/", "b">>
CutRests == {<<"a", "?", "b">>, <<"a", "#", "b">>, <<"a", ";", "b">>,
             <<"a", ";", "b", "/", "b">>}

\* the body a client library sends to store payload v
WriteBody(v) == JsonData(b64encode(v))

\* the store operations, well formed, as a client library sends them: every
\* payload is written to key a, one payload to key a/b
StoreRequests ==
    {Request("GET", LIST, NoBody)}
    \cup {Request("GET", READ \o k, NoBody) : k \in {A, AB}}
    \cup {Request("DELETE", DELETE \o k, NoBody) : k \in {A, AB}}
    \cup {Request("POST", WRITE \o A, WriteBody(v)) : v \in Payloads}
    \cup {Request("POST", WRITE \o AB, WriteBody(<<255>>))}

\* everything the clients of the model send
Requests ==
    StoreRequests
    \cup {Request("GET", HEALTH, NoBody)}
    \cup {Request("GET", READ \o k, NoBody) : k \in CutRests}
    \cup {Request("DELETE", DELETE \o <<"a", ";", "b">>, NoBody)}
    \cup {Request("POST", WRITE \o A, b) :
              b \in {JsonNoData, NoBody, NotJson, BadLength, ShortBody}}
    \cup {Request("POST", WRITE \o <<"a", "?", "b">>, WriteBody(<<>>))}
    \cup {Request("POST", WRITE \o A, JsonData(d)) : d \in {<<0, 16>>, <<Junk, Junk>>}}
    \cup {Request(m, LIST \o <<"/">>, NoBody) : m \in {"GET", "POST", "DELETE"}}
    \cup {Request("GET", WRITE \o A, NoBody),
          Request("POST", READ \o A, NoBody),
          Request("DELETE", LIST, NoBody)}
    \cup {Request(m, READ \o A, NoBody) : m \in {"PUT", "OPTIONS"}}

\* one request for each Store method, all on key a
LockRequests ==
    {Request("GET", LIST, NoBody),
     Request("GET", READ \o A, NoBody),
     Request("DELETE", DELETE \o A, NoBody),
     Request("POST", WRITE \o A, WriteBody(<<255>>))}

\* requests whose target ends with the route prefix, and the same with key a
KeyRequests ==
    {Request("GET", LIST, NoBody)}
    \cup {Request("GET", READ \o k, NoBody) : k \in {<<>>, A}}
    \cup {Request("DELETE", DELETE \o k, NoBody) : k \in {<<>>, A}}
    \cup {Request("POST", WRITE \o k, WriteBody(v)) : k \in {<<>>, A}, v \in {<<>>, <<255>>}}

-----------------------------------------------------------------------------
(* The state after construction: run_server builds one empty MockStorage    *)

Init ==
    /\ storage = <<>>
    /\ lock = Free
    /\ pc = [c \in Conns |-> "idle"]
    /\ req = [c \in Conns |-> NoReq]
    /\ key = [c \in Conns |-> <<>>]
    /\ data = [c \in Conns |-> <<>>]
    /\ keys = [c \in Conns |-> <<>>]
    /\ sent = NoSent
    /\ hist = [k \in {} |-> NoHist]
    /\ behind = [c \in Conns |-> {}]
    /\ late = [c \in Conns |-> {}]

-----------------------------------------------------------------------------
(* Sending a response ends the request: HTTP/1.0, one request a connection  *)

Reply(c, r, resp) ==
    /\ sent' = [conn |-> c, req |-> r, resp |-> resp, was |-> HistOf(key[c]),
                changed |-> Changed(storage, storage'), late |-> late[c]]
    /\ pc' = [pc EXCEPT ![c] = "idle"]
    /\ req' = [req EXCEPT ![c] = NoReq]
    /\ key' = [key EXCEPT ![c] = <<>>]
    /\ data' = [data EXCEPT ![c] = <<>>]
    /\ keys' = [keys EXCEPT ![c] = <<>>]
    /\ behind' = [behind EXCEPT ![c] = {}]
    /\ late' = [late EXCEPT ![c] = {}]

_send_json_response(c, r, body) == Reply(c, r, body)

_send_error(c, r, code, text, k) == Reply(c, r, ErrorBody(code, text, k))

\* the handler goes on to a Store call: it next sleeps or takes the lock
Enter(c, r, k, d, at) ==
    /\ pc' = [pc EXCEPT ![c] = at]
    /\ req' = [req EXCEPT ![c] = r]
    /\ key' = [key EXCEPT ![c] = k]
    /\ data' = [data EXCEPT ![c] = d]
    /\ sent' = NoSent
    /\ UNCHANGED <<storage, lock, keys, hist, behind, late>>

-----------------------------------------------------------------------------
(* StorageRequestHandler: routing, up to the response or the Store call     *)

_handle_health(c, r) ==
    /\ UNCHANGED <<storage, lock, hist>>
    /\ _send_json_response(c, r, Response(200, "health", <<>>, <<>>, 0, <<>>, NoError))

\* self.storage.list_all() is the first thing it does
_handle_list(c, r) == Enter(c, r, <<>>, <<>>, "acquire")

\* as _handle_read, were the sleep inside the Store's with block
_handle_read_locked(c, r, k) ==
    /\ lock = Free
    /\ lock' = c
    /\ pc' = [pc EXCEPT ![c] = "sleep"]
    /\ req' = [req EXCEPT ![c] = r]
    /\ key' = [key EXCEPT ![c] = k]
    /\ data' = [data EXCEPT ![c] = <<>>]
    /\ sent' = NoSent
    /\ UNCHANGED <<storage, keys, hist, behind, late>>

\* as _handle_read, were the delay left out
_handle_read_nodelay(c, r, k) == Enter(c, r, k, <<>>, "acquire")

\* time.sleep(0.5) comes first, self.storage.read(key) after it
_handle_read(c, r, k) == Enter(c, r, k, <<>>, "sleep")

\* int(self.headers.get('Content-Length', 0)) raises ValueError
int_raises(r) == r.body.kind = "badlength"

\* Content-Length, the JSON body and its Base64 are checked before
\* self.storage.write(key, data); self.rfile.read(content_length) returns when
\* that many bytes have come or the client has ended its sending
_handle_write(c, r, k) ==
    IF r.body.kind = "none"
    THEN /\ UNCHANGED <<storage, lock, hist>>
         /\ _send_error(c, r, 400, "No data provided", <<>>)
    ELSE IF r.body.kind = "short"
    THEN Enter(c, r, k, <<>>, "recv")
    ELSE IF r.body.kind = "notjson"
    THEN /\ UNCHANGED <<storage, lock, hist>>
         /\ _send_error(c, r, 400, "Invalid request data", <<>>)
    ELSE LET data_str == IF r.body.kind = "data" THEN r.body.data ELSE <<>>
             decoded  == b64decode(data_str)
         IN  IF ~decoded.ok
             THEN /\ UNCHANGED <<storage, lock, hist>>
                  /\ _send_error(c, r, 400, "Invalid request data", <<>>)
             ELSE Enter(c, r, k, decoded.bytes, "acquire")

\* self.storage.delete(key) is the first thing it does
_handle_delete(c, r, k) == Enter(c, r, k, <<>>, "acquire")

do_GET(c, r) ==
    LET path == urlparse_path(r.target)
    IN  IF path = HEALTH THEN _handle_health(c, r)
        ELSE IF path = LIST THEN _handle_list(c, r)
        ELSE IF startswith(path, READ) THEN _handle_read(c, r, Slice(path, 6))
        ELSE /\ UNCHANGED <<storage, lock, hist>>
             /\ _send_error(c, r, 404, "Not Found", <<>>)

do_POST(c, r) ==
    LET path == urlparse_path(r.target)
    IN  IF startswith(path, WRITE) /\ int_raises(r)
        THEN /\ UNCHANGED <<storage, lock, hist>>
             /\ _send_error(c, r, 500, "invalid literal for int()", <<>>)
        ELSE IF startswith(path, WRITE) THEN _handle_write(c, r, Slice(path, 7))
        ELSE /\ UNCHANGED <<storage, lock, hist>>
             /\ _send_error(c, r, 404, "Not Found", <<>>)

do_DELETE(c, r) ==
    LET path == urlparse_path(r.target)
    IN  IF startswith(path, DELETE) THEN _handle_delete(c, r, Slice(path, 8))
        ELSE /\ UNCHANGED <<storage, lock, hist>>
             /\ _send_error(c, r, 404, "Not Found", <<>>)

\* BaseHTTPRequestHandler.handle_one_request: do_<METHOD> when the class has
\* it, its own 501 page otherwise
StorageRequestHandler(c, r) ==
    IF r.method = "GET" THEN do_GET(c, r)
    ELSE IF r.method = "POST" THEN do_POST(c, r)
    ELSE IF r.method = "DELETE" THEN do_DELETE(c, r)
    ELSE /\ UNCHANGED <<storage, lock, hist>>
         /\ Reply(c, r, HtmlError(501))

\* which Store method the handler of r calls
StoreCall(r) ==
    IF r.method = "POST" THEN "write"
    ELSE IF r.method = "DELETE" THEN "delete"
    ELSE IF urlparse_path(r.target) = LIST THEN "list_all"
    ELSE "read"

-----------------------------------------------------------------------------
(* The handler, from the Store call to the response                         *)

list_response(r, ks) == Response(200, "list", <<>>, <<>>, 0, ks, NoError)

\* as read_response, were the test `if not data`
read_response_falsy(r, k, got) ==
    IF got.none \/ got.value = <<>>
    THEN ErrorBody(404, "Key not found", k)
    ELSE Response(200, "read", k, b64encode(got.value), Len(got.value), <<>>, NoError)

read_response(r, k, got) ==
    IF got.none
    THEN ErrorBody(404, "Key not found", k)
    ELSE Response(200, "read", k, b64encode(got.value), Len(got.value), <<>>, NoError)

write_response(r, k, d, success) ==
    IF success
    THEN Response(200, "write", k, <<>>, Len(d), <<>>, NoError)
    ELSE ErrorBody(500, "Failed to write data", <<>>)

delete_response(r, k, success) ==
    IF success
    THEN Response(200, "delete", k, <<>>, 0, <<>>, NoError)
    ELSE ErrorBody(404, "Key not found", k)

\* the Store method of connection c's handler, run on the dict
Called(c) ==
    LET m == StoreCall(req[c])
    IN  IF m = "list_all" THEN list_all(storage)
        ELSE IF m = "read" THEN read(storage, key[c])
        ELSE IF m = "write" THEN write(storage, key[c], data[c])
        ELSE delete(storage, key[c])

Responded(c, ret) ==
    LET m == StoreCall(req[c])
    IN  IF m = "list_all" THEN list_response(req[c], ret)
        ELSE IF m = "read" THEN read_response(req[c], key[c], ret)
        ELSE IF m = "write" THEN write_response(req[c], key[c], data[c], ret)
        ELSE delete_response(req[c], key[c], ret)

\* the history of key[c] after the call: what was last done to the key
Recorded(c) ==
    LET m == StoreCall(req[c])
        h == HistOf(key[c])
    IN  IF m = "write" THEN
            HistSet(key[c], [state |-> "written", body |-> req[c].body])
        ELSE IF m = "delete" THEN
            HistSet(key[c], [state |-> IF h.state = "written" THEN "deleted" ELSE "missed",
                             body |-> NoBody])
        ELSE hist

-----------------------------------------------------------------------------
(* Steps *)

Busy(c) == pc[c] \in {"recv", "sleep", "acquire", "cs", "send"}

\* HTTPServer handles a request to its end before it accepts the next one;
\* with a worker per connection every waiting request is taken up
CanAccept(c, threaded) == threaded \/ \A d \in Conns : ~Busy(d)

\* a client connects and sends its request, which waits in the listen queue
Connect(c) ==
    /\ pc[c] = "idle"
    /\ pc' = [pc EXCEPT ![c] = "pending"]
    /\ behind' = [behind EXCEPT ![c] = {d \in Conns : pc[d] = "sleep"}]
    /\ sent' = NoSent
    /\ UNCHANGED <<storage, lock, req, key, data, keys, hist, late>>

\* the server accepts the connection, reads request r and runs the handler
Accept(c, r, threaded) ==
    /\ pc[c] = "pending"
    /\ CanAccept(c, threaded)
    /\ StorageRequestHandler(c, r)

\* the client ends its sending with the body still short: self.rfile.read
\* returns what has come, json.loads raises on it, the except answers 400
rfile_read(c) ==
    /\ pc[c] = "recv"
    /\ UNCHANGED <<storage, lock, hist>>
    /\ _send_error(c, req[c], 400, "Invalid request data", <<>>)

\* time.sleep(0.5) returns
Wake(c) ==
    /\ pc[c] = "sleep"
    /\ pc' = [pc EXCEPT ![c] = "acquire"]
    /\ late' = [d \in Conns |->
                  IF c \in behind[d] THEN late[d] \cup {key[c]} ELSE late[d]]
    /\ behind' = [d \in Conns |-> behind[d] \ {c}]
    /\ sent' = NoSent
    /\ UNCHANGED <<storage, lock, req, key, data, keys, hist>>

\* as Acquire, were write without its with block
Acquire_write_unlocked(c) ==
    /\ pc[c] = "acquire"
    /\ StoreCall(req[c]) = "write" \/ lock = Free
    /\ lock' = IF StoreCall(req[c]) = "write" THEN lock ELSE c
    /\ pc' = [pc EXCEPT ![c] = "cs"]
    /\ sent' = NoSent
    /\ UNCHANGED <<storage, req, key, data, keys, hist, behind, late>>

\* with self._lock: entered
Acquire(c) ==
    /\ pc[c] = "acquire"
    /\ lock = Free
    /\ lock' = c
    /\ pc' = [pc EXCEPT ![c] = "cs"]
    /\ sent' = NoSent
    /\ UNCHANGED <<storage, req, key, data, keys, hist, behind, late>>

\* keys = self.storage.list_all() has returned: the handler holds the list
\* and goes on to its response
Return(c, ret) ==
    /\ pc' = [pc EXCEPT ![c] = "send"]
    /\ keys' = [keys EXCEPT ![c] = ret]
    /\ sent' = NoSent
    /\ UNCHANGED <<req, key, data, behind, late>>

\* as Exit, were the lock taken and released by hand and the release left out
\* on the early returns (read's None, delete's False)
Exit_early_return_keeps_lock(c) ==
    /\ pc[c] = "cs"
    /\ storage' = Called(c).dict
    /\ hist' = Recorded(c)
    /\ lock' = IF lock = c /\ (StoreCall(req[c]) \in {"list_all", "write"}
                                \/ DictHas(storage, key[c]))
               THEN Free ELSE lock
    /\ IF StoreCall(req[c]) = "list_all"
       THEN Return(c, Called(c).ret)
       ELSE Reply(c, req[c], Responded(c, Called(c).ret))

\* the body of the with block and the release of the lock on the way out;
\* with it the handler's response to what read, write or delete returned (a
\* value that nothing can change any more), while the list that list_all
\* returned is sent in a step of its own
Exit(c) ==
    /\ pc[c] = "cs"
    /\ storage' = Called(c).dict
    /\ hist' = Recorded(c)
    /\ lock' = IF lock = c THEN Free ELSE lock
    /\ IF StoreCall(req[c]) = "list_all"
       THEN Return(c, Called(c).ret)
       ELSE Reply(c, req[c], Responded(c, Called(c).ret))

\* as Send, were `keys` a view of the dict (self._storage.keys() without list())
Send_view(c) ==
    /\ pc[c] = "send"
    /\ UNCHANGED <<storage, lock, hist>>
    /\ _send_json_response(c, req[c], list_response(req[c], DictKeys(storage)))

\* self._send_json_response({"keys": keys})
Send(c) ==
    /\ pc[c] = "send"
    /\ UNCHANGED <<storage, lock, hist>>
    /\ _send_json_response(c, req[c], list_response(req[c], keys[c]))

Next ==
    \E c \in Conns :
        \/ Connect(c)
        \/ \E r \in Requests : Accept(c, r, FALSE)
        \/ rfile_read(c)
        \/ Wake(c)
        \/ Acquire(c)
        \/ Exit(c)
        \/ Send(c)

\* the server as run_server starts it
Spec == Init /\ [][Next]_vars

NextThreads ==
    \E c \in Conns :
        \/ Connect(c)
        \/ \E r \in StoreRequests : Accept(c, r, TRUE)
        \/ Wake(c)
        \/ Acquire(c)
        \/ Exit(c)
        \/ Send(c)

NextKeys ==
    \E c \in Conns :
        \/ Connect(c)
        \/ \E r \in KeyRequests : Accept(c, r, FALSE)
        \/ Wake(c)
        \/ Acquire(c)
        \/ Exit(c)
        \/ Send(c)

\* the server as run_server starts it, sent the requests of KeyRequests
SpecKeys == Init /\ [][NextKeys]_vars

\* the same handlers and Store with one worker thread per connection
SpecThreads == Init /\ [][NextThreads]_vars

\* the workers of SpecThreads, sent the requests of LockRequests
NextLock ==
    \E c \in Conns :
        \/ Connect(c)
        \/ \E r \in LockRequests : Accept(c, r, TRUE)
        \/ Wake(c)
        \/ Acquire(c)
        \/ Exit(c)
        \/ Send(c)

\* fair scheduling of the workers: a worker that can go on does, and a worker
\* that waits for the lock gets it when it is free again and again
FairLock ==
    \A c \in Conns :
        /\ WF_vars(\E r \in LockRequests : Accept(c, r, TRUE))
        /\ WF_vars(Wake(c))
        /\ SF_vars(Acquire(c))
        /\ WF_vars(Exit(c))
        /\ WF_vars(Send(c))

\* one worker per connection under fair scheduling
SpecLock == Init /\ [][NextLock]_vars /\ FairLock

\* a worker, one per connection, that has a step to take now
Runnable(c) ==
    \/ pc[c] \in {"pending", "cs", "send"}
    \/ pc[c] = "acquire" /\ lock = Free

\* half a second is long against every other step: the delay of c runs out
\* only when no other worker has a step to take
Settled(c) == \A d \in Conns \ {c} : ~Runnable(d)

NextThreadsTimed ==
    \E c \in Conns :
        \/ Connect(c)
        \/ \E r \in StoreRequests : Accept(c, r, TRUE)
        \/ Settled(c) /\ Wake(c)
        \/ Acquire(c)
        \/ Exit(c)
        \/ Send(c)

\* SpecThreads with the delay long against the other steps
SpecThreadsTimed == Init /\ [][NextThreadsTimed]_vars

-----------------------------------------------------------------------------
(* Properties *)

Keys == {A, AB}

Sent == sent.conn \in Conns

ReadOf(k) == Request("GET", READ \o k, NoBody)
WriteOf(k, v) == Request("POST", WRITE \o k, WriteBody(v))
DeleteOf(k) == Request("DELETE", DELETE \o k, NoBody)

Written(v) == [state |-> "written", body |-> WriteBody(v)]

\* C1: a write to another key, issued while a read sleeps its delay, is
\* answered 200 before that delay has run out: no such read is in the `late`
\* of a write's response
C1_LatencyIsolation ==
    \A k \in Keys : \A v \in Payloads :
        (Sent /\ sent.req = WriteOf(k, v) /\ sent.resp.status = 200)
            => sent.late \subseteq {k}

\* C2: a read of k, the last mutation of k being Write(k, v), is answered 200
\* with data the Base64 of v, which decodes to v, and size the length of v;
\* the dict holds exactly v for k
C2_RoundTrip ==
    \A k \in Keys : \A v \in Payloads :
        HistOf(k) = Written(v) =>
            /\ Lookup(storage, k) = Some(v)
            /\ (Sent /\ sent.req = ReadOf(k)) =>
                  /\ sent.resp = Response(200, "read", k, b64encode(v), Len(v), <<>>, NoError)
                  /\ b64decode(sent.resp.data) = [ok |-> TRUE, bytes |-> v]

\* a read of a key written with the empty payload has just been answered
C2_Witness ==
    /\ Sent
    /\ sent.req = ReadOf(A)
    /\ HistOf(A) = Written(<<>>)
    /\ sent.resp.status = 200
    /\ sent.resp.size = 0

\* C3: while the last mutation of k is a delete, k has no entry in the dict,
\* a read of k is answered 404 and a list does not name k; and a delete is
\* answered 200 only when it removed an entry
C3_DeleteRemoves ==
    \A k \in Keys :
        /\ HistOf(k).state \in {"deleted", "missed"} =>
              /\ ~DictHas(storage, k)
              /\ (Sent /\ sent.req = ReadOf(k)) =>
                    sent.resp = ErrorBody(404, "Key not found", k)
              /\ (Sent /\ sent.resp.kind = "list") =>
                    \A i \in 1..Len(sent.resp.keys) : sent.resp.keys[i] # k
        /\ (Sent /\ sent.req = DeleteOf(k) /\ sent.resp.status = 200) =>
              /\ sent.was.state = "written"
              /\ sent.changed = {k}

\* a read of a key whose entry a delete removed has just been answered 404
C3_Witness ==
    /\ Sent
    /\ sent.req = ReadOf(A)
    /\ HistOf(A).state = "deleted"
    /\ sent.resp.status = 404

\* C4: a delete of a key that has no entry is answered 404 with the error
\* envelope and changes nothing in the dict, the first time and every time
C4_IdempotentDelete ==
    \A k \in Keys :
        (Sent /\ sent.req = DeleteOf(k) /\ sent.was.state # "written") =>
            /\ sent.resp = ErrorBody(404, "Key not found", k)
            /\ sent.changed = {}
            /\ ~DictHas(storage, k)

\* a delete of a key whose last delete already found nothing was answered 404
C4_Witness ==
    /\ Sent
    /\ sent.req = DeleteOf(A)
    /\ sent.was.state = "missed"
    /\ sent.resp.status = 404

\* C5: a write of v to k is answered 200 with size the length of v and leaves
\* v as the value of k; a read then returns v with that size; a list names a
\* written key exactly once
C5_Overwrite ==
    \A k \in Keys : \A v \in Payloads :
        /\ (Sent /\ sent.req = WriteOf(k, v)) =>
              /\ sent.resp = Response(200, "write", k, <<>>, Len(v), <<>>, NoError)
              /\ Lookup(storage, k) = Some(v)
        /\ (Sent /\ sent.req = ReadOf(k) /\ HistOf(k) = Written(v)) =>
              /\ sent.resp.status = 200
              /\ sent.resp.size = Len(v)
              /\ b64decode(sent.resp.data).bytes = v
        /\ (Sent /\ sent.resp.kind = "list" /\ HistOf(k).state = "written") =>
              Cardinality({i \in 1..Len(sent.resp.keys) : sent.resp.keys[i] = k}) = 1

\* a write that replaced another payload of the same key was answered
C5_Witness ==
    /\ Sent
    /\ \E v \in Payloads : sent.req = WriteOf(A, v)
    /\ sent.was.state = "written"
    /\ sent.was.body # sent.req.body
    /\ sent.resp.status = 200

\* C6: a POST /write/{key} whose JSON object has no `data` field is answered
\* 400 with the error envelope and changes nothing in the dict
C6_MissingDataRejected ==
    \A k \in Keys :
        (Sent /\ sent.req = Request("POST", WRITE \o k, JsonNoData)) =>
            /\ sent.resp.status = 400
            /\ sent.resp.kind = "error"
            /\ sent.changed = {}

\* C7: at most one worker is inside a Store method's with block, and the
\* worker inside it holds the lock
C7_MutualExclusion ==
    \A c \in Conns : \A d \in Conns :
        /\ pc[c] = "cs" => lock = c
        /\ (pc[c] = "cs" /\ pc[d] = "cs") => c = d

\* one worker is inside the with block while the other waits for the lock
C7_Witness ==
    \E c \in Conns : \E d \in Conns : pc[c] = "cs" /\ pc[d] = "acquire"

\* C8: a handler sleeping its read delay does not hold the lock; whoever
\* holds it then is inside a Store method, on its way to release it
C8_DelayOutsideLock ==
    \A c \in Conns :
        pc[c] = "sleep" => /\ lock # c
                           /\ lock # Free => pc[lock] = "cs"

\* while one handler sleeps, another worker is inside a Store method
C8_Witness ==
    \E c \in Conns : \E d \in Conns :
        pc[c] = "sleep" /\ pc[d] = "cs" /\ lock = d

\* the route table of the handler
Routed(r) ==
    \/ r.method = "GET" /\ (r.target \in {HEALTH, LIST} \/ startswith(r.target, READ))
    \/ r.method = "POST" /\ startswith(r.target, WRITE)
    \/ r.method = "DELETE" /\ startswith(r.target, DELETE)

\* C9: a request outside the route table is answered 404 with the JSON error
\* envelope and changes nothing in the dict
C9_UnroutedIs404 ==
    (Sent /\ ~Routed(sent.req)) =>
        /\ sent.resp.status = 404
        /\ sent.resp.kind = "error"
        /\ sent.changed = {}

\* the route prefix of a method, and what follows it in a request's target
PrefixOf(r) ==
    IF r.method = "GET" THEN READ ELSE IF r.method = "POST" THEN WRITE ELSE DELETE

RestOf(r) == Slice(r.target, Len(PrefixOf(r)))

\* a handler that has a key from its request's target
Keyed(c) == Busy(c) /\ startswith(req[c].target, PrefixOf(req[c]))

\* C10 as claimed: the key is what follows the prefix, character for character
C10_KeyVerbatim ==
    \A c \in Conns : Keyed(c) => key[c] = RestOf(req[c])

\* the least index from `from` on of a character of chars in s, Len(s) + 1
\* when there is none
FirstOf(s, chars, from) ==
    LET hits == {i \in from..Len(s) : s[i] \in chars}
    IN  IF hits = {} THEN Len(s) + 1 ELSE CHOOSE i \in hits : \A j \in hits : i <= j

\* rest up to its first '?' or '#', and of that the part before the first ';'
\* of its last segment
KeyPart(rest) ==
    LET path == SubSeq(rest, 1, FirstOf(rest, {"?", "#"}, 1) - 1)
        segs == {i \in 1..Len(path) : path[i] = "/"}
        last == IF segs = {} THEN 0 ELSE CHOOSE i \in segs : \A j \in segs : i >= j
    IN  SubSeq(path, 1, FirstOf(path, {";"}, last + 1) - 1)

\* C10 as amended: the key is what follows the prefix in the parsed path, slashes
\* kept: the target's query, fragment and last-segment parameters are no part
\* of it, and a remainder without '?', '#', ';' is the key as it stands
C10_KeyIsPathRemainder ==
    \A c \in Conns :
        Keyed(c) =>
            /\ key[c] = KeyPart(RestOf(req[c]))
            /\ (\A i \in 1..Len(RestOf(req[c])) : RestOf(req[c])[i] \notin {"?", "#", ";"})
                  => key[c] = RestOf(req[c])

\* a read whose target carries a query is under way with the key cut before it
C10_Witness ==
    \E c \in Conns :
        /\ pc[c] = "sleep"
        /\ req[c].target = READ \o <<"a", "?", "b">>
        /\ key[c] = A

\* a GET that the handler routes to _handle_read, and the key it reads
IsRead(r) == r.method = "GET" /\ startswith(urlparse_path(r.target), READ)

ReadKey(r) == Slice(urlparse_path(r.target), 6)

\* C11: a read changes nothing in the dict; a read of a key that has no entry
\* is answered 404 with the envelope naming the key, never 200; a read of a
\* key whose entry is the empty payload is answered 200 with size 0
C11_AbsentRead404 ==
    (Sent /\ IsRead(sent.req)) =>
        LET k == ReadKey(sent.req)
        IN  /\ sent.changed = {}
            /\ ~DictHas(storage, k) =>
                  sent.resp = ErrorBody(404, "Key not found", k)
            /\ (DictHas(storage, k) /\ DictGet(storage, k) = <<>>) =>
                  sent.resp = Response(200, "read", k, <<>>, 0, <<>>, NoError)

\* a read of a key never written was answered 404 while the dict holds
\* another key
C11_Witness ==
    /\ Sent
    /\ sent.req = ReadOf(A)
    /\ sent.was.state = "none"
    /\ DictHas(storage, AB)
    /\ sent.resp = ErrorBody(404, "Key not found", A)

\* a POST that the handler routes to _handle_write
IsWrite(r) == r.method = "POST" /\ startswith(urlparse_path(r.target), WRITE)

\* Base64 as RFC 4648 has it: quads of alphabet characters, '=' only as the
\* last one or two characters
ValidBase64(s) ==
    /\ Len(s) % 4 = 0
    /\ \A i \in 1..Len(s) : s[i] # Junk
    /\ \A i \in 1..Len(s) : s[i] = Pad =>
          /\ i >= Len(s) - 1
          /\ i < Len(s) => s[i + 1] = Pad

\* no body, a body that is no JSON text, or a `data` that is no Base64
BadBody(b) ==
    \/ b.kind \in {"none", "notjson", "short"}
    \/ b.kind = "data" /\ ~ValidBase64(b.data)

\* C12: a POST /write/{key} without a body, with a body that is no JSON, or
\* with a `data` that is no Base64 is answered 400 with the error envelope and
\* changes nothing in the dict
C12_BadWriteRejected ==
    (Sent /\ IsWrite(sent.req) /\ BadBody(sent.req.body)) =>
        /\ sent.resp.status = 400
        /\ sent.resp.kind = "error"
        /\ sent.changed = {}

\* a step the server takes with what it has received
ServerStep ==
    \E c \in Conns :
        \/ \E r \in Requests : Accept(c, r, FALSE)
        \/ Wake(c)
        \/ Acquire(c)
        \/ Exit(c)
        \/ Send(c)

\* a response to a GET, POST or DELETE is JSON under one of the handler's
\* status codes
C13_JsonWithStatus ==
    (Sent /\ sent.req.method \in {"GET", "POST", "DELETE"}) =>
        /\ sent.resp.kind # "html"
        /\ sent.resp.status \in {200, 400, 404, 500}

\* an exception that no route handles is answered 500 with its message
C13_ExceptionIs500 ==
    (Sent /\ IsWrite(sent.req) /\ int_raises(sent.req)) =>
        /\ sent.resp = ErrorBody(500, "invalid literal for int()", <<>>)
        /\ sent.changed = {}

\* the response ends the request, so none gets a second one
C13_AtMostOne == Sent => pc[sent.conn] = "idle"

\* while a request waits or is being handled the server has a step to take:
\* none is left without its response, and the server goes on to the next
C13_ServerGoesOn == (\E c \in Conns : pc[c] # "idle") => ENABLED ServerStep

\* C13: every GET, POST or DELETE request gets exactly one response, JSON
\* with a status code; an exception no route handles becomes a 500 with its
\* message; and the server goes on to the requests that follow
C13_AlwaysOneJsonResponse ==
    /\ C13_JsonWithStatus
    /\ C13_ExceptionIs500
    /\ C13_AtMostOne
    /\ C13_ServerGoesOn

\* C14: every key of the dict is a non-empty string
C14_KeysNonEmpty ==
    \A i \in 1..Len(storage) : storage[i].key # <<>>

\* C15: with concurrent workers, a read of k is answered with the whole
\* payload of the write that last changed k in the order of the lock, when no
\* delete came after it, and with 404 otherwise
C15_ReadsLastWrite ==
    \A k \in Keys :
        (Sent /\ sent.req = ReadOf(k)) =>
            IF sent.was.state = "written"
            THEN \E v \in Payloads :
                    /\ sent.was.body = WriteBody(v)
                    /\ sent.resp = Response(200, "read", k, b64encode(v), Len(v),
                                            <<>>, NoError)
                    /\ b64decode(sent.resp.data) = [ok |-> TRUE, bytes |-> v]
            ELSE sent.resp = ErrorBody(404, "Key not found", k)

\* a read was answered with the last write's payload while another worker,
\* come to write another payload to the same key, waits for the lock
C15_Witness ==
    \E d \in Conns : \E v \in Payloads :
        /\ Sent
        /\ sent.req = ReadOf(A)
        /\ sent.resp.status = 200
        /\ pc[d] = "acquire"
        /\ req[d] = WriteOf(A, v)
        /\ req[d].body # sent.was.body

\* what a step does with the list a handler has taken or takes
C16_Step ==
    \A c \in Conns :
        /\ (pc[c] = "cs" /\ pc'[c] = "send") =>
              /\ keys'[c] = DictKeys(storage)
              /\ storage' = storage
              /\ \A i \in 1..Len(keys'[c]) : \A j \in 1..Len(keys'[c]) :
                    keys'[c][i] = keys'[c][j] => i = j
              /\ \A k \in Keys :
                    DictHas(storage, k) <=> \E i \in 1..Len(keys'[c]) : keys'[c][i] = k
        /\ (pc[c] = "send" /\ pc'[c] = "send") => keys'[c] = keys[c]
        /\ (pc[c] = "send" /\ pc'[c] # "send") =>
              /\ sent'.conn = c
              /\ sent'.resp = Response(200, "list", <<>>, <<>>, 0, keys[c], NoError)

\* C16: with concurrent workers, the list a handler takes is, without
\* duplicates, the keys the dict has at the instant it is taken, under the
\* lock; what other workers write or delete afterwards does not alter it, and
\* it is what the response carries
C16_ListSnapshot == [][C16_Step]_vars

\* a handler holds a list, and the dict has changed since it was taken
C16_Witness ==
    \E c \in Conns :
        /\ pc[c] = "send"
        /\ keys[c] # DictKeys(storage)
        /\ Len(keys[c]) > 0

\* what a step does with a read: its handler starts with the delay, asks the
\* Store only when the delay is over, and answers from what the Store holds
\* then
C17_Step ==
    \A c \in Conns :
        /\ (pc[c] = "pending" /\ pc'[c] # "pending" /\ IsRead(req'[c])) =>
              pc'[c] = "sleep"
        /\ (IsRead(req[c]) /\ pc[c] # "acquire" /\ pc'[c] = "acquire") =>
              pc[c] = "sleep"
        /\ (IsRead(req[c]) /\ pc[c] # "cs" /\ pc'[c] = "cs") =>
              pc[c] = "acquire"
        /\ (sent'.conn = c /\ IsRead(sent'.req)) =>
              /\ pc[c] = "cs"
              /\ storage' = storage
              /\ sent'.resp =
                    IF DictHas(storage, key[c])
                    THEN Response(200, "read", key[c], b64encode(DictGet(storage, key[c])),
                                  Len(DictGet(storage, key[c])), <<>>, NoError)
                    ELSE ErrorBody(404, "Key not found", key[c])

\* C17: every read, of a present or an absent key, sleeps its delay before
\* it asks the Store; no read is answered, 200 or 404, before its delay is
\* over, and the answer is what the Store holds after the delay
C17_DelayBeforeQuery == [][C17_Step]_vars

\* a read of a is in its delay, and another worker's write to a has just
\* changed the entry
C17_Witness ==
    \E c \in Conns : \E v \in Payloads :
        /\ pc[c] = "sleep"
        /\ req[c] = ReadOf(A)
        /\ Sent
        /\ sent.conn # c
        /\ sent.req = WriteOf(A, v)
        /\ sent.changed = {A}

\* the lock is free whenever no worker is inside a Store method
C18_LockFree == (\A c \in Conns : pc[c] # "cs") => lock = Free

\* some step is possible
C18_NoDeadlock == ENABLED NextLock

\* a request that has been sent gets to its end
C18_Completes == \A c \in Conns : (pc[c] # "idle") ~> (pc[c] = "idle")

C19_Step ==
    /\ Changed(storage, storage') # {} =>
          \E c \in Conns :
              /\ pc[c] = "cs"
              /\ StoreCall(req[c]) \in {"write", "delete"}
              /\ Changed(storage, storage') = {key[c]}
              /\ sent'.conn = c
              /\ sent'.resp.status = 200
    /\ \A k \in Keys :
          Lookup(storage', k) # Lookup(storage, k) =>
              \E c \in Conns : pc[c] = "cs" /\ key[c] = k
    /\ (sent'.conn \in Conns /\ sent'.resp.status \in {400, 404, 500}) =>
          storage' = storage
    /\ (sent'.conn \in Conns /\ sent'.resp.kind \in {"health", "read", "list"}) =>
          storage' = storage
    /\ \A c \in Conns :
          (pc[c] = "cs" /\ pc'[c] # "cs" /\ StoreCall(req[c]) \in {"list_all", "read"}) =>
              storage' = storage

\* C19: a write or a delete of k changes at most the entry of k and no other
\* key's presence or value; a list, a read, a health check and every request
\* answered 400, 404 or 500 leave the whole dict as it was
C19_SingleKeyFrame == [][C19_Step]_vars

\* a delete of a removed its entry, and the entry of a/b is still there
C19_Witness ==
    /\ Sent
    /\ sent.req = DeleteOf(A)
    /\ sent.resp.status = 200
    /\ sent.changed = {A}
    /\ Lookup(storage, AB) = Some(<<255>>)

====
